---- MODULE Spec2Model ----
(***************************************************************************)
(* Satellite position pipeline of 3D-Earth: element fetch, SGP4 worker,    *)
(* main-thread fallback, prev/next double buffer and GPU blend clock.      *)
(*                                                                         *)
(* Units.  Times are milliseconds.  The code keeps satInterpStart and      *)
(* satInterpDuration in seconds (performance.now() / 1000.0); the model    *)
(* keeps both in milliseconds, which scales numerator and denominator of   *)
(* the blend quotient alike.  The blend uniform u_interp is the quotient   *)
(* (now - satInterpStart) / satInterpDuration kept as its numerator over   *)
(* the fixed denominator satInterpDuration: u_interp = satInterpDuration   *)
(* is the value 1.0.  Coordinates, altitudes and angles are fixed point    *)
(* (thousandths); Math.sin / Math.cos are Bhaskara's rational sine on      *)
(* whole degrees.                                                          *)
(***************************************************************************)
EXTENDS Integers, Sequences, FiniteSets, TLC

\* ------------------------------------------------------------- bounds
\* largest number of element sets in a fetched response
MaxSats == 2
\* number of clock advances in a behaviour
MaxAdvances == 4
\* Math.random() is drawn from {0/RandRes, ..., (RandRes-1)/RandRes}
RandRes == 2
\* messages a running worker may leave unhandled across a clock advance
MaxPending == 1
\* performance.now() when init() runs (time origin is navigation start)
PageLoadMs == 200
\* SYNTHETIC_SAT_COUNT is 2000 in the source; the model keeps the same
\* loops over a smaller population
SYNTHETIC_SAT_COUNT == 2

\* -------------------------------------------------- program constants
TLE_UPDATE_MS == 3000
satInterpDuration == 800
tleUpdateInterval == 5000
\* the literal 12 of the placeholder loop in fetchTLES' catch
PlaceholderCount == 12
\* r = 1.1 in every projection and ring
SceneRadius == 1100

\* clock advances: a fraction of the blend duration, and an update period
TimeSteps == {satInterpDuration \div 2, TLE_UPDATE_MS}
\* Date.now() is performance.now() plus the (large) epoch of the time origin
DateEpoch == 4 * tleUpdateInterval

\* ------------------------------------------------------------ helpers
NULL == << >>
Some(x) == << x >>
IsNull(o) == Len(o) = 0
Val(o) == o[1]

Min(a, b) == IF a <= b THEN a ELSE b

\* the value a Float32Array holds after storing undefined
NaNVal == 0 - 1000000

Zeros(n) == [k \in 1..n |-> 0]

\* Bhaskara's sine in thousandths, argument in degrees
SinHalf(x) == (4000 * x * (180 - x)) \div (40500 - x * (180 - x))
Sin1000(d) == LET x == d % 360 IN IF x <= 180 THEN SinHalf(x) ELSE 0 - SinHalf(x - 180)
Cos1000(d) == Sin1000(d + 90)

\* ------------------------------------------- propagation library (satellite.js)
\* The library is a black box: twoline2satrec / propagate / eciToGeodetic are
\* one deterministic function of the two lines and the timestamp.  Its
\* outcome for a pair of lines is a position ("ok"), no position
\* (propagate(...).position is falsy: "nopos") or an exception ("throw").
OkLines == {"2 A", "2 B"}
TleLines == OkLines \cup {"2 nopos", "2 throw"}

LibKind(tle1, tle2) ==
    IF tle2 \in OkLines /\ tle1 = "1" THEN "ok"
    ELSE IF tle2 = "2 nopos" /\ tle1 = "1" THEN "nopos"
    ELSE "throw"

\* eciToGeodetic(propagate(satrec, now).position, gstime(now)), in degrees
GeoLat(tle2, t) == IF tle2 = "2 A" THEN 30 ELSE 0 - 45
GeoLon(tle2, t) ==
    IF tle2 = "2 A" THEN ((t \div 100) % 360) - 180
    ELSE ((t \div 50 + 90) % 360) - 180

\* phi = (90 - lat), theta = (lon + 180); x = r sin(phi) cos(theta),
\* y = r cos(phi), z = r sin(phi) sin(theta)
ProjectXYZ(lat, lon) ==
    LET phi == 90 - lat
        theta == lon + 180
    IN << (SceneRadius * Sin1000(phi) * Cos1000(theta)) \div 1000000,
          (SceneRadius * Cos1000(phi)) \div 1000,
          (SceneRadius * Sin1000(phi) * Sin1000(theta)) \div 1000000 >>

Propagated(e, t) == ProjectXYZ(GeoLat(e.tle2, t), GeoLon(e.tle2, t))

\* !t.tle1 || !t.tle2
LinesAbsent(e) == e.tle1 = "" \/ e.tle2 = ""

\* a flat 3n buffer from a triple per entry
Flat(n, f(_)) == [k \in 1..(3 * n) |-> f(((k - 1) \div 3) + 1)[((k - 1) % 3) + 1]]

\* buffer[i * 3 + c] read from a Float32Array (i from 1, c from 1 here);
\* a read past the end is undefined, which a Float32Array stores as NaN
ReadAt(buf, i, c) ==
    LET k == 3 * (i - 1) + c IN IF k <= Len(buf) THEN buf[k] ELSE NaNVal

\* ---------------------------------------------------- worker: 'update'
\* one entry of the worker's batch
WorkerEntry(e, t) ==
    IF LinesAbsent(e) THEN <<0, 0, 0>>
    ELSE IF LibKind(e.tle1, e.tle2) = "ok" THEN Propagated(e, t)
    ELSE <<0, 0, 0>>

\* mutant of WorkerPositions: the library flag is not consulted, a missing
\* library shows as a failure of every entry it would have propagated
WorkerPositionsLazy(tle, lib, t) ==
    LET one(i) == IF lib THEN WorkerEntry(tle[i], t)
                  ELSE IF LinesAbsent(tle[i]) THEN <<0, 0, 0>> ELSE <<NaNVal, NaNVal, NaNVal>>
    IN Flat(Len(tle), one)

\* the buffer the worker posts for an 'update'
WorkerPositions(tle, lib, t) ==
    IF ~lib THEN Zeros(3 * Len(tle))
    ELSE LET one(i) == WorkerEntry(tle[i], t) IN Flat(Len(tle), one)

\* ------------------------------------------- main thread: fallback batch
\* mutant of FallbackEntry: a propagated entry is averaged with the value
\* next holds for it
FallbackEntrySmoothed(e, i, next, t) ==
    IF LinesAbsent(e) \/ LibKind(e.tle1, e.tle2) # "ok" \/ IsNull(next)
    THEN <<0, 0, 0>>
    ELSE [c \in 1..3 |-> (Propagated(e, t)[c] + ReadAt(Val(next), i, c)) \div 2]

\* one entry of updateTLEPositionsFallback; next is nextSatBuffer (or NULL)
FallbackEntry(e, i, next, t) ==
    IF LinesAbsent(e)
    THEN IF IsNull(next) THEN <<SceneRadius, 0, 0>>
         ELSE <<ReadAt(Val(next), i, 1), ReadAt(Val(next), i, 2), ReadAt(Val(next), i, 3)>>
    ELSE IF LibKind(e.tle1, e.tle2) = "ok" THEN Propagated(e, t)
    ELSE IF LibKind(e.tle1, e.tle2) = "nopos" THEN <<0, 0, 0>>
    ELSE IF IsNull(next) THEN <<0, 0, 0>>
         ELSE <<ReadAt(Val(next), i, 1), ReadAt(Val(next), i, 2), ReadAt(Val(next), i, 3)>>

\* mutant of FallbackPositions: an entry whose propagation throws is zeroed,
\* as in the worker
FallbackPositionsZeroOnThrow(tle, next, t) ==
    LET one(i) == IF ~LinesAbsent(tle[i]) /\ LibKind(tle[i].tle1, tle[i].tle2) = "throw"
                  THEN <<0, 0, 0>>
                  ELSE FallbackEntry(tle[i], i, next, t)
    IN Flat(Len(tle), one)

\* the batch of updateTLEPositionsFallback
FallbackPositions(tle, next, t) ==
    LET one(i) == FallbackEntry(tle[i], i, next, t) IN Flat(Len(tle), one)

\* updateTLEPositions' loop: writes the array of tlePositionsAttr in place,
\* skipping every entry the library gives no position for; a write past the
\* end of a typed array is ignored
InPlacePositions(tle, array, t) ==
    [k \in 1..Len(array) |->
        LET i == ((k - 1) \div 3) + 1
            c == ((k - 1) % 3) + 1
        IN IF i <= Len(tle) /\ LibKind(tle[i].tle1, tle[i].tle2) = "ok"
           THEN Propagated(tle[i], t)[c]
           ELSE array[k]]

\* ------------------------------------------------------- seeds and rings
\* a = (i / count) * 2 pi; x = r cos a, y = r sin a * yTenths / 10, z = r sin a
RingEntry(i, count, yTenths) ==
    LET a == (360 * (i - 1)) \div count
    IN << (SceneRadius * Cos1000(a)) \div 1000,
          (SceneRadius * Sin1000(a) * yTenths) \div 10000,
          (SceneRadius * Sin1000(a)) \div 1000 >>

Ring(count, yTenths) ==
    LET one(i) == RingEntry(i, count, yTenths) IN Flat(count, one)

\* the placeholder collection of fetchTLES' catch
Placeholders ==
    [i \in 1..PlaceholderCount |-> [name |-> "SYNTH-" \o ToString(i - 1), tle1 |-> "", tle2 |-> ""]]

\* TypedArray.prototype.set(src): RangeError when src is longer
SetThrows(target, src) == Len(src) > Len(target)
SetArr(target, src) == [k \in 1..Len(target) |-> IF k <= Len(src) THEN src[k] ELSE target[k]]

\* ------------------------------------------------------ element parsing
\* l.trim(): the response alphabet has clean lines, lines with trailing
\* white space and whitespace-only lines
Trim(l) ==
    CASE l = " " -> ""
      [] l = "1 " -> "1"
      [] l = "2 A " -> "2 A"
      [] OTHER -> l

\* mutant of Triplets: the loop stops while a full triplet is left
\* (i + 3 < lines.length)
TripletsStrictBound(lines) ==
    LET n == IF Len(lines) = 0 THEN 0 ELSE (Len(lines) - 1) \div 3
    IN [j \in 1..n |-> [name |-> lines[3 * j - 2], tle1 |-> lines[3 * j - 1], tle2 |-> lines[3 * j]]]

\* text.split('\n').map(trim).filter(Boolean), then triplets until the first
\* one that lacks tle1 or tle2
Triplets(lines) ==
    LET Complete(j) == 3 * j - 1 <= Len(lines) /\ 3 * j <= Len(lines)
        n == Cardinality({j \in 1..Len(lines) : \A h \in 1..j : Complete(h)})
    IN [j \in 1..n |-> [name |-> lines[3 * j - 2], tle1 |-> lines[3 * j - 1], tle2 |-> lines[3 * j]]]

ParseTLE(text) ==
    LET trimmed == [k \in 1..Len(text) |-> Trim(text[k])]
        IsLine(l) == l # ""
    IN CHOOSE tle \in {Triplets(lines) : lines \in {SelectSeq(trimmed, IsLine)}} : TRUE

\* a response of n well-formed triplets with second lines k, and a trailing
\* blank line
ResponseText(n, k) ==
    [j \in 1..(3 * n + 1) |->
        IF j = 3 * n + 1 THEN " "
        ELSE LET i == ((j - 1) \div 3) + 1
                 c == (j - 1) % 3
             IN IF c = 0 THEN "SAT-" \o ToString(i) ELSE IF c = 1 THEN "1" ELSE k[i]]

\* a response that is no sequence of triplets: an error page of two lines,
\* and one of four lines
MalformedTexts ==
    {<<"<html>", "Not Found">>, <<"<html>", "<body>", "Not Found", "</html>">>}

\* the texts res.text() may resolve to: up to MaxSats well-formed triplets
\* (none: an empty response), or a malformed text
Responses ==
    UNION {{ResponseText(n, k) : k \in [1..n -> TleLines]} : n \in 0..MaxSats}
        \cup MalformedTexts

\* ------------------------------------------------- synthetic population
\* the j-th Math.random() after the seed, as a numerator over RandRes
Rand(seed, j) == (seed + j) % RandRes

\* mutant of SyntheticEntry: altitude drawn from 1.5 + random * 0.5
SyntheticEntryHigh(seed, i) ==
    [altitude |-> 1500 + (Rand(seed, 4 * (i - 1)) * 500) \div RandRes,
     speed |-> 2 + (Rand(seed, 4 * (i - 1) + 1) * 10) \div RandRes,
     phase |-> (Rand(seed, 4 * (i - 1) + 2) * 6283) \div RandRes,
     inclination |-> (Rand(seed, 4 * (i - 1) + 3) * 3142) \div RandRes]

\* syntheticParams.push({altitude: 1.05 + random * 0.5, speed: 0.002 + random * 0.01,
\* phase: random * 2 pi, inclination: random * pi}), in thousandths
SyntheticEntry(seed, i) ==
    [altitude |-> 1050 + (Rand(seed, 4 * (i - 1)) * 500) \div RandRes,
     speed |-> 2 + (Rand(seed, 4 * (i - 1) + 1) * 10) \div RandRes,
     phase |-> (Rand(seed, 4 * (i - 1) + 2) * 6283) \div RandRes,
     inclination |-> (Rand(seed, 4 * (i - 1) + 3) * 3142) \div RandRes]

GenerateSynthetic(seed) == [i \in 1..SYNTHETIC_SAT_COUNT |-> SyntheticEntry(seed, i)]

\* mutant of AnimateSynthetic: every entry advances by the minimum speed
AnimateSyntheticFixedStep(params) ==
    [i \in 1..Len(params) |-> [params[i] EXCEPT !.phase = @ + 2]]

\* animateSyntheticSatellites: p.phase += p.speed for every entry
AnimateSynthetic(params) ==
    [i \in 1..Len(params) |-> [params[i] EXCEPT !.phase = @ + params[i].speed]]

\* --------------------------------------------- main thread: the handlers
\* The main thread's module variables are the fields of one record m:
\*   tleData, prevSatBuffer, nextSatBuffer (NULL or Some(buffer)),
\*   tlePositionsAttr ("null", "a_posNext": the attribute wrapping
\*   nextSatBuffer itself, or "position": the attribute wrapping positionArray),
\*   u_interp, satInterpStart, lastTleUpdate, tleLatestBuffer, sgp4Worker
\*   (TRUE when the handle is non-null) and syntheticParams.
DateNow(t) == DateEpoch + t

\* mutant of SlideInstall: the incoming buffer is copied into next before
\* next is copied into prev
SlideInstallNextFirst(m, arr, t) ==
    LET next == Val(m.nextSatBuffer)
        prev == Val(m.prevSatBuffer)
    IN IF SetThrows(next, arr) THEN [m |-> m, threw |-> TRUE]
       ELSE [m |-> [m EXCEPT !.nextSatBuffer = Some(SetArr(next, arr)),
                             !.prevSatBuffer = Some(SetArr(prev, SetArr(next, arr))),
                             !.u_interp = 0,
                             !.satInterpStart = t],
             threw |-> FALSE]

\* prevSatBuffer.set(nextSatBuffer); nextSatBuffer.set(arr); u_interp = 0;
\* satInterpStart = now.  A RangeError of the second set leaves the first done.
SlideInstall(m, arr, t) ==
    LET prev == Val(m.prevSatBuffer)
        next == Val(m.nextSatBuffer)
    IN IF SetThrows(prev, next) THEN [m |-> m, threw |-> TRUE]
       ELSE IF SetThrows(next, arr)
       THEN [m |-> [m EXCEPT !.prevSatBuffer = Some(SetArr(prev, next))], threw |-> TRUE]
       ELSE [m |-> [m EXCEPT !.prevSatBuffer = Some(SetArr(prev, next)),
                             !.nextSatBuffer = Some(SetArr(next, arr)),
                             !.u_interp = 0,
                             !.satInterpStart = t],
             threw |-> FALSE]

\* mutant of OnPositions: a buffer arriving while the blend of the previous
\* one is in progress is dropped
OnPositionsAfterBlend(m, arr, t) ==
    IF m.tlePositionsAttr = "null" \/ t - m.satInterpStart < satInterpDuration
    THEN [m |-> m, threw |-> FALSE]
    ELSE LET m1 == [m EXCEPT !.tleLatestBuffer = Some(arr)]
         IN IF ~IsNull(m.prevSatBuffer) /\ ~IsNull(m.nextSatBuffer)
            THEN LET r == SlideInstall(m1, arr, t)
                 IN IF r.threw THEN r
                    ELSE [m |-> [r.m EXCEPT !.lastTleUpdate = DateNow(t)], threw |-> FALSE]
            ELSE [m |-> [m1 EXCEPT !.lastTleUpdate = DateNow(t)], threw |-> FALSE]

\* sgp4Worker.onmessage, msg.type === 'positions'
OnPositions(m, arr, t) ==
    IF m.tlePositionsAttr = "null" THEN [m |-> m, threw |-> FALSE]
    ELSE LET m1 == [m EXCEPT !.tleLatestBuffer = Some(arr)]
         IN IF ~IsNull(m.prevSatBuffer) /\ ~IsNull(m.nextSatBuffer)
            THEN LET r == SlideInstall(m1, arr, t)
                 IN IF r.threw THEN r
                    ELSE [m |-> [r.m EXCEPT !.lastTleUpdate = DateNow(t)], threw |-> FALSE]
            ELSE [m |-> [m1 EXCEPT !.lastTleUpdate = DateNow(t)], threw |-> FALSE]

\* mutant of OnReady: the handle is kept after terminate()
OnReadyKeepsHandle(m, satlib) == m

\* sgp4Worker.onmessage, msg.type === 'ready': the handle is cleared when the
\* worker reports no library
OnReady(m, satlib) == IF satlib THEN m ELSE [m EXCEPT !.sgp4Worker = FALSE]

\* updateTLEPositionsFallback() from "if buffers available" on: arr is the
\* batch just computed
FallbackInstall(m, arr, t) ==
    LET done(mm) == [mm EXCEPT !.tleLatestBuffer = Some(arr), !.lastTleUpdate = DateNow(t)]
    IN IF ~IsNull(m.prevSatBuffer) /\ ~IsNull(m.nextSatBuffer)
       THEN LET r == SlideInstall(m, arr, t)
            IN IF r.threw THEN [m |-> r.m, arr |-> Some(arr), ran |-> TRUE, threw |-> TRUE]
               ELSE [m |-> done(r.m), arr |-> Some(arr), ran |-> TRUE, threw |-> FALSE]
       ELSE IF m.tlePositionsAttr = "position"
       THEN IF SetThrows(m.positionArray, arr)
            THEN [m |-> m, arr |-> Some(arr), ran |-> TRUE, threw |-> TRUE]
            ELSE [m |-> done([m EXCEPT !.positionArray = SetArr(m.positionArray, arr)]),
                  arr |-> Some(arr), ran |-> TRUE, threw |-> FALSE]
       ELSE [m |-> done(m), arr |-> Some(arr), ran |-> TRUE, threw |-> FALSE]

\* mutant of UpdateTLEPositionsFallback: no guard for the empty collection
UpdateTLEPositionsFallbackNoGuard(m, t, lib) ==
    IF ~lib THEN [m |-> m, arr |-> NULL, ran |-> FALSE, threw |-> TRUE]
    ELSE CHOOSE res \in {FallbackInstall(m, arr, t) :
                            arr \in {FallbackPositions(m.tleData, m.nextSatBuffer, t)}} : TRUE

\* updateTLEPositionsFallback(); lib: satellite is defined on the main thread.
\* ran: the batch was computed; threw: the call raised (a rejected promise)
UpdateTLEPositionsFallback(m, t, lib) ==
    IF Len(m.tleData) = 0 THEN [m |-> m, arr |-> NULL, ran |-> FALSE, threw |-> FALSE]
    ELSE IF ~lib THEN [m |-> m, arr |-> NULL, ran |-> FALSE, threw |-> TRUE]
    ELSE CHOOSE res \in {FallbackInstall(m, arr, t) :
                            arr \in {FallbackPositions(m.tleData, m.nextSatBuffer, t)}} : TRUE

\* updateTLEPositions() with the handle null: positions written in place into
\* the array of tlePositionsAttr
UpdateTLEPositionsMain(m, t, lib) ==
    IF Len(m.tleData) = 0 \/ m.tlePositionsAttr = "null" THEN [m |-> m, threw |-> FALSE]
    ELSE IF ~lib THEN [m |-> m, threw |-> TRUE]
    ELSE IF m.tlePositionsAttr = "a_posNext"
    THEN [m |-> [m EXCEPT !.nextSatBuffer = Some(InPlacePositions(m.tleData, Val(m.nextSatBuffer), t)),
                          !.lastTleUpdate = DateNow(t)],
          threw |-> FALSE]
    ELSE [m |-> [m EXCEPT !.positionArray = InPlacePositions(m.tleData, m.positionArray, t),
                          !.lastTleUpdate = DateNow(t)],
          threw |-> FALSE]

\* updateTLEPositions() posts an 'update' when the handle is non-null
UpdateTLEPositionsPosts(m) ==
    Len(m.tleData) # 0 /\ m.tlePositionsAttr # "null" /\ m.sgp4Worker

\* mutant of BlendT: the quotient without Math.min
BlendTUnclamped(start, t) == t - start

\* the blend quotient of animate(): Math.min(1.0, (now - satInterpStart) / satInterpDuration)
BlendT(start, t) == Min(satInterpDuration, t - start)

\* mutant of Mix: the weights exchanged
MixSwapped(x, y, a) == (x * a + y * (satInterpDuration - a)) \div satInterpDuration

\* the vertex shader: mix(a_posPrev, a_posNext, u_interp) = x (1 - a) + y a
Mix(x, y, a) == (x * (satInterpDuration - a) + y * a) \div satInterpDuration

\* mutant of BlendStep: the blended positions are also written back into
\* prevSatBuffer
BlendStepWritesBack(m, t) ==
    IF m.satInterpStart > 0
    THEN LET a == BlendT(m.satInterpStart, t)
         IN IF IsNull(m.prevSatBuffer) \/ IsNull(m.nextSatBuffer) THEN [m EXCEPT !.u_interp = a]
            ELSE [m EXCEPT !.u_interp = a,
                           !.prevSatBuffer =
                               Some([k \in 1..Len(Val(m.prevSatBuffer)) |->
                                       Mix(Val(m.prevSatBuffer)[k], Val(m.nextSatBuffer)[k], a)])]
    ELSE m

\* animate(): "advance GPU interpolation uniform"
BlendStep(m, t) ==
    IF m.satInterpStart > 0 THEN [m EXCEPT !.u_interp = BlendT(m.satInterpStart, t)] ELSE m

\* fetchTLES' catch block
FetchCatch(m, t) ==
    [m EXCEPT !.tleData = Placeholders,
              !.tlePositionsAttr = "position",
              !.positionArray = Ring(PlaceholderCount, 2),
              !.lastTleUpdate = DateNow(t)]

\* setupSgp4Worker(): a handle exists when Worker is defined and the
\* constructor returns, whether or not the script then loads
WorkerHandleCreated(workerEnv) == workerEnv \in {"ok", "loadfail"}

\* fetchTLES' try block after the response text arrived.  posts: setTLE and
\* update go to the worker; created: setupSgp4Worker made a handle
FetchAllocate(m, tle, seed) ==
    [m EXCEPT !.tleData = tle,
              !.prevSatBuffer = Some(seed),
              !.nextSatBuffer = Some(seed),
              !.tlePositionsAttr = "a_posNext"]

\* "schedule first update": m is the store after the allocation
FetchFirstUpdate(m, t, workerEnv, lib) ==
    LET created == ~m.sgp4Worker /\ WorkerHandleCreated(workerEnv)
    IN IF m.sgp4Worker \/ created
       THEN [m |-> [m EXCEPT !.sgp4Worker = TRUE], posts |-> TRUE, created |-> created,
             threw |-> FALSE, path |-> "worker"]
       ELSE CHOOSE res \in
              {IF r.threw
               THEN [m |-> FetchCatch(r.m, t), posts |-> FALSE, created |-> FALSE,
                     threw |-> TRUE, path |-> "direct"]
               ELSE [m |-> r.m, posts |-> FALSE, created |-> FALSE, threw |-> FALSE,
                     path |-> "direct"] : r \in {UpdateTLEPositionsMain(m, t, lib)}} : TRUE

FetchTry(m, text, t, workerEnv, lib) ==
    CHOOSE res \in
      {FetchFirstUpdate(m1, t, workerEnv, lib) :
         m1 \in {FetchAllocate(m, tle, seed) :
                   tle \in {ParseTLE(text)}, seed \in {Ring(n, 1) : n \in {Len(ParseTLE(text))}}}} : TRUE

\* mutant of IntervalBody: a callback that finds the handle null clears the
\* collection for a new fetch
IntervalBodyRefetches(m, t, lib) ==
    IF m.sgp4Worker
    THEN [m |-> m, posts |-> TRUE, path |-> "worker", arr |-> NULL, ran |-> FALSE, threw |-> FALSE]
    ELSE [m |-> [m EXCEPT !.tleData = << >>], posts |-> FALSE, path |-> "fallback",
          arr |-> NULL, ran |-> FALSE, threw |-> FALSE]

\* the interval callback of startTleUpdateLoop
IntervalBody(m, t, lib) ==
    IF m.sgp4Worker
    THEN [m |-> m, posts |-> TRUE, path |-> "worker", arr |-> NULL, ran |-> FALSE, threw |-> FALSE]
    ELSE CHOOSE res \in
           {[m |-> r.m, posts |-> FALSE, path |-> "fallback", arr |-> r.arr, ran |-> r.ran,
             threw |-> r.threw] : r \in {UpdateTLEPositionsFallback(m, t, lib)}} : TRUE

\* mutant of FrameUpdate: a stale frame runs the main-thread update whether
\* or not there is a handle, and posts as well when there is one
FrameUpdateBothPaths(m, t, lib) ==
    IF ~(DateNow(t) - m.lastTleUpdate > tleUpdateInterval)
    THEN [m |-> m, posts |-> FALSE, path |-> "none", arr |-> NULL, ran |-> FALSE,
          threw |-> FALSE]
    ELSE CHOOSE res \in
           {[m |-> r.m, posts |-> UpdateTLEPositionsPosts(m), path |-> "fallback", arr |-> r.arr,
             ran |-> r.ran, threw |-> r.threw] : r \in {UpdateTLEPositionsFallback(m, t, lib)}} : TRUE

\* animate(): "update TLE-derived satellite points periodically"
FrameUpdate(m, t, lib) ==
    IF ~(DateNow(t) - m.lastTleUpdate > tleUpdateInterval)
    THEN [m |-> m, posts |-> FALSE, path |-> "none", arr |-> NULL, ran |-> FALSE,
          threw |-> FALSE]
    ELSE IF m.sgp4Worker
    THEN [m |-> m, posts |-> UpdateTLEPositionsPosts(m), path |-> "worker", arr |-> NULL,
          ran |-> FALSE, threw |-> FALSE]
    ELSE IntervalBody(m, t, lib)

\* animate(): animateSyntheticSatellites()
FrameAnimate(m) == [m EXCEPT !.syntheticParams = AnimateSynthetic(m.syntheticParams)]

\* one pass of animate(): the periodic update check, the synthetic
\* population, the blend uniform
FrameBody(m, t, lib) ==
    CHOOSE res \in
      {[u EXCEPT !.m = BlendStep(FrameAnimate(u.m), t)] : u \in {FrameUpdate(m, t, lib)}} : TRUE

\* ------------------------------------------------- worker: the handlers
\* self.onmessage, msg.type === 'setTLE': tleData = msg.tle || []
HeldAfterSetTLE(msg) == IF IsNull(msg.tle) THEN << >> ELSE Val(msg.tle)

\* mutant of ReadyReply: the acknowledgment always reports the library
ReadyReplyAlwaysLib(tle, lib) ==
    [type |-> "ready", satlib |-> TRUE, count |-> Len(tle), positions |-> << >>]

\* self.onmessage, msg.type === 'setTLE': the reply
ReadyReply(tle, lib) == [type |-> "ready", satlib |-> lib, count |-> Len(tle), positions |-> << >>]

\* self.onmessage, msg.type === 'update': the reply
PositionsReply(tle, lib, t) ==
    [type |-> "positions", satlib |-> lib, count |-> Len(tle), positions |-> WorkerPositions(tle, lib, t)]

\* the messages of the main thread; tle is NULL when the message has no tle field
SetTLEMsg(tle) == [type |-> "setTLE", tle |-> Some(tle)]
UpdateMsg == [type |-> "update", tle |-> NULL]

\* mutant of FirstMessages: the first 'update' is posted before 'setTLE'
FirstMessagesUpdateFirst(tle) == <<UpdateMsg, SetTLEMsg(tle)>>

\* fetchTLES, "schedule first update" with a handle: 'setTLE' carrying the
\* collection, then 'update'
FirstMessages(tle) == <<SetTLEMsg(tle), UpdateMsg>>

\* ------------------------------------------------- camera and controls
\* Vectors are triples in thousandths, the field of view is in thousandths
\* of a degree.  OrbitControls keeps position0 / target0, the values of its
\* construction; controls.update() without pointer input leaves position and
\* target as they are.
InitialFov == 75000
followTargetFov == 40000
followTransitionDuration == 1200
\* followLerp = 0.12 and the FOV easing factor 0.06, in hundredths
followLerp == 12
FovEase == 6
followDesiredOffset == <<0, 120, 350>>
InitialPosition == <<0, 0, 3000>>
Origin == <<0, 0, 0>>

\* a.lerp(b, num / den)
Lerp(a, b, num, den) == [c \in 1..3 |-> a[c] + ((b[c] - a[c]) * num) \div den]
LerpScalar(a, b, num, den) == a + ((b - a) * num) \div den

\* followDesiredOffset rotated about Y by now * followOrbitSpeed (0.6 rad/s)
OrbitOffset(t) ==
    LET a == ((t * 344) \div 10000) % 360
        v == followDesiredOffset
    IN << (v[1] * Cos1000(a) + v[3] * Sin1000(a)) \div 1000,
          v[2],
          (v[3] * Cos1000(a) - v[1] * Sin1000(a)) \div 1000 >>

\* the camera before init(): build names the script, "script.js" or the
\* copy of it that keeps initialCameraState; inputs counts the user inputs
NoCamera(build) ==
    [build |-> build, inputs |-> 0,
     position |-> Origin, target |-> Origin, fov |-> 0,
     position0 |-> Origin, target0 |-> Origin,
     initialCameraState |-> NULL,
     issVisible |-> FALSE, issPosition |-> Origin,
     followISSEnabled |-> FALSE, followTransitionStart |-> 0, followSaved |-> NULL,
     followStartPos |-> Origin, followStartTarget |-> Origin, followStartFov |-> 0]

\* init(): camera and OrbitControls are constructed; the copy snapshots
\* position, target and fov into initialCameraState
CameraAtInit(c) ==
    [c EXCEPT !.position = InitialPosition,
              !.target = Origin,
              !.fov = InitialFov,
              !.position0 = InitialPosition,
              !.target0 = Origin,
              !.initialCameraState =
                  IF c.build = "copy"
                  THEN Some([pos |-> InitialPosition, target |-> Origin, fov |-> InitialFov])
                  ELSE NULL]

\* toggleFollowISS()
ToggleFollow(c, t) ==
    IF ~c.followISSEnabled
    THEN [c EXCEPT !.followSaved = Some([pos |-> c.position, target |-> c.target, fov |-> c.fov]),
                   !.followStartPos = c.position,
                   !.followStartTarget = c.target,
                   !.followStartFov = c.fov,
                   !.followISSEnabled = TRUE,
                   !.followTransitionStart = t]
    ELSE [c EXCEPT !.followISSEnabled = FALSE, !.followTransitionStart = t]

\* animate(): "follow ISS camera"
FollowStep(c, t) ==
    IF ~((c.followISSEnabled \/ c.followTransitionStart > 0) /\ c.issVisible) THEN c
    ELSE LET goalCamPos == [k \in 1..3 |-> c.issPosition[k] + OrbitOffset(t)[k]]
             tt == Min(followTransitionDuration, t - c.followTransitionStart)
         IN IF c.followTransitionStart > 0
            THEN IF c.followISSEnabled
                 THEN [c EXCEPT
                         !.position = Lerp(c.followStartPos, goalCamPos, tt, followTransitionDuration),
                         !.target = Lerp(c.followStartTarget, c.issPosition, tt, followTransitionDuration),
                         !.fov = LerpScalar(c.followStartFov, followTargetFov, tt, followTransitionDuration),
                         !.followTransitionStart =
                             IF tt >= followTransitionDuration THEN 0 ELSE c.followTransitionStart]
                 ELSE IF IsNull(c.followSaved) THEN c
                 ELSE [c EXCEPT
                         !.position = Lerp(c.position, Val(c.followSaved).pos, tt, followTransitionDuration),
                         !.target = Lerp(c.target, Val(c.followSaved).target, tt, followTransitionDuration),
                         !.fov = LerpScalar(c.fov, Val(c.followSaved).fov, tt, followTransitionDuration),
                         !.followTransitionStart =
                             IF tt >= followTransitionDuration THEN 0 ELSE c.followTransitionStart,
                         !.followSaved =
                             IF tt >= followTransitionDuration THEN NULL ELSE c.followSaved]
            ELSE [c EXCEPT !.position = Lerp(c.position, goalCamPos, followLerp, 100),
                           !.target = Lerp(c.target, c.issPosition, followLerp, 100),
                           !.fov = LerpScalar(c.fov, followTargetFov, FovEase, 100)]

\* controls.reset(): target0 and position0 are restored (and the zoom); the
\* field of view is not touched
ControlsReset(c) == [c EXCEPT !.target = c.target0, !.position = c.position0]

\* resetView(): the copy restores initialCameraState when it has one;
\* script.js sets the position to (0, 0, 3) and calls controls.reset()
ResetViewOf(c) ==
    IF ~IsNull(c.initialCameraState)
    THEN [c EXCEPT !.position = Val(c.initialCameraState).pos,
                   !.target = Val(c.initialCameraState).target,
                   !.fov = Val(c.initialCameraState).fov]
    ELSE ControlsReset([c EXCEPT !.position = InitialPosition])

\* ------------------------------------------------------------- the state
VARIABLES
    now,        \* performance.now(), ms
    advances,   \* clock advances so far
    env,        \* the browser: worker ("undefined", "throws", "loadfail", "ok"),
                \* workerLib (importScripts succeeds), mainLib (satellite defined)
    pc,         \* "load" before init(), "run" after
    fetchState, \* "idle", "pending", "resolved", "rejected", "threw"
    g,          \* the main thread's module variables
    tleUpdateTimer, \* due time of the interval callback (0: no timer)
    lastFrame,  \* time of the last animate() pass
    w,          \* the worker: state ("none", "running", "dead", "terminated"),
                \* satlibLoaded, tleData
    toWorker,   \* messages posted to the worker, not yet handled
    toMain,     \* messages posted by the worker, not yet handled
    workersCreated, \* number of Worker objects constructed
    response,   \* the text res.text() resolved to (NULL: none yet, or rejected)
    cam,        \* camera, OrbitControls and the ISS follow mode
    hist,       \* history of the messages the main thread handled: ready is
                \* the last 'ready' ("none", "lib", "nolib"), arrived the
                \* number of 'positions' messages, last and lastBefore
                \* the buffers of the latest two, sinceInstall the time
                \* since the previous install when the latest arrived,
                \* issued the number of update requests (an 'update' posted
                \* or a main-thread batch computed) since the last
                \* setInterval callback began, its own included
    ev          \* the last step: operation, path taken, buffer supplied,
                \* prev/next before it

vars == <<now, advances, env, pc, fetchState, g, tleUpdateTimer, lastFrame, w, toWorker,
          toMain, workersCreated, response, cam, hist, ev>>

\* state functions under the source's names
tleData == g.tleData
prevSatBuffer == g.prevSatBuffer
nextSatBuffer == g.nextSatBuffer
tlePositionsAttr == g.tlePositionsAttr
positionArray == g.positionArray
u_interp == g.u_interp
satInterpStart == g.satInterpStart
lastTleUpdate == g.lastTleUpdate
sgp4Worker == g.sgp4Worker
syntheticParams == g.syntheticParams

acked == hist.ready

NoHistory == [ready |-> "none", arrived |-> 0, last |-> NULL, lastBefore |-> NULL,
              sinceInstall |-> 0, issued |-> 0]

\* r is the outcome of an update check: 1 when it issued a request
Issues(r) == IF r.posts \/ r.ran THEN 1 ELSE 0

\* the history after a 'positions' message carrying arr arrived at time t;
\* arrived counts 0, 1, and 2 for two or more
Arrived(h, arr, start, t) ==
    [h EXCEPT !.arrived = Min(h.arrived + 1, 2),
              !.last = Some(arr),
              !.lastBefore = h.last,
              !.sinceInstall = t - start]

Event(op, path, arr, ran, threw) ==
    [op |-> op, path |-> path, arr |-> arr, ran |-> ran, threw |-> threw,
     preNext |-> g.nextSatBuffer, prePrev |-> g.prevSatBuffer]

\* the browsers the page may run in; with a worker that has the library the
\* main thread never consults its own copy, so one value of mainLib is kept
Envs ==
    {[worker |-> "undefined", workerLib |-> FALSE, mainLib |-> ml] : ml \in BOOLEAN}
    \cup {[worker |-> "throws", workerLib |-> FALSE, mainLib |-> ml] : ml \in BOOLEAN}
    \cup {[worker |-> "loadfail", workerLib |-> FALSE, mainLib |-> ml] : ml \in BOOLEAN}
    \cup {[worker |-> "ok", workerLib |-> FALSE, mainLib |-> ml] : ml \in BOOLEAN}
    \cup {[worker |-> "ok", workerLib |-> TRUE, mainLib |-> TRUE]}

\* the module-level initialisers of script.js and of the worker script
InitStore ==
    /\ now = PageLoadMs
    /\ advances = 0
    /\ env \in Envs
    /\ pc = "load"
    /\ fetchState = "idle"
    /\ g = [tleData |-> << >>,
            prevSatBuffer |-> NULL,
            nextSatBuffer |-> NULL,
            tlePositionsAttr |-> "null",
            positionArray |-> << >>,
            u_interp |-> 0,
            satInterpStart |-> 0,
            lastTleUpdate |-> 0,
            tleLatestBuffer |-> NULL,
            sgp4Worker |-> FALSE,
            syntheticParams |-> << >>]
    /\ tleUpdateTimer = 0
    /\ lastFrame = 0
    /\ w = [state |-> "none", satlibLoaded |-> FALSE, tleData |-> << >>]
    /\ toWorker = << >>
    /\ toMain = << >>
    /\ workersCreated = 0
    /\ response = NULL
    /\ hist = NoHistory
    /\ ev = [op |-> "none", path |-> "none", arr |-> NULL, ran |-> FALSE, threw |-> FALSE,
             preNext |-> NULL, prePrev |-> NULL]

Init == InitStore /\ cam = NoCamera("script.js")

\* init(): camera and controls, createSatellites() (fetchTLES() runs to its first await, the
\* synthetic population is generated), startTleUpdateLoop(), animate()
InitApp ==
    /\ pc = "load"
    /\ \E seed \in 0..(RandRes - 1) :
         \E m1 \in {[g EXCEPT !.syntheticParams = GenerateSynthetic(seed)]} :
           \E f \in {FrameBody(m1, now, env.mainLib)} :
              /\ g' = f.m
              /\ ev' = Event("init", f.path, f.arr, f.ran, f.threw)
              /\ hist' = [hist EXCEPT !.issued = Issues(f)]
    /\ pc' = "run"
    /\ fetchState' = "pending"
    /\ tleUpdateTimer' = now + TLE_UPDATE_MS
    /\ lastFrame' = now
    /\ cam' = FollowStep(CameraAtInit(cam), now)
    /\ UNCHANGED <<now, advances, env, w, toWorker, toMain, workersCreated, response>>

\* Time passes.  A clock step is far longer than a frame, so the main
\* thread's event loop is idle when it is taken: init() has run, the frame
\* of this clock value was rendered, a due interval callback has fired and
\* every delivered worker message was handled.  A running worker may lag by
\* up to MaxPending unhandled messages (a worker that never runs is the
\* "loadfail" environment).
Advance ==
    /\ advances < MaxAdvances
    /\ pc = "run"
    /\ lastFrame = now
    /\ now < tleUpdateTimer
    /\ toMain = << >>
    /\ (w.state = "running" => Len(toWorker) <= MaxPending)
    /\ \E d \in TimeSteps : now' = now + d
    /\ advances' = advances + 1
    /\ ev' = Event("advance", "none", NULL, FALSE, FALSE)
    /\ UNCHANGED <<env, pc, fetchState, g, tleUpdateTimer, lastFrame, w, toWorker, toMain,
                   workersCreated, response, cam, hist>>

\* fetch() or res.text() rejects: the catch block runs on an untouched store
FetchFail ==
    /\ fetchState = "pending"
    /\ fetchState' = "rejected"
    /\ g' = FetchCatch(g, now)
    /\ ev' = Event("fetchFail", "none", NULL, FALSE, TRUE)
    /\ UNCHANGED <<now, advances, env, pc, tleUpdateTimer, lastFrame, w, toWorker, toMain,
                   workersCreated, response, cam, hist>>

\* the response text arrives: the rest of the try block
FetchSuccess ==
    /\ fetchState = "pending"
    /\ \E text \in Responses :
         \E r \in {FetchTry(g, text, now, env.worker, env.mainLib)} :
            /\ g' = r.m
            /\ response' = Some(text)
            /\ fetchState' = IF r.threw THEN "threw" ELSE "resolved"
            /\ workersCreated' = workersCreated + (IF r.created THEN 1 ELSE 0)
            /\ w' = IF r.created
                    THEN [state |-> IF env.worker = "ok" THEN "running" ELSE "dead",
                          satlibLoaded |-> env.worker = "ok" /\ env.workerLib,
                          tleData |-> << >>]
                    ELSE w
            /\ toWorker' = IF r.posts THEN toWorker \o FirstMessages(r.m.tleData)
                           ELSE toWorker
            /\ ev' = Event("fetchSuccess", r.path, NULL, FALSE, r.threw)
    /\ UNCHANGED <<now, advances, env, pc, tleUpdateTimer, lastFrame, toMain, cam, hist>>

\* the setInterval callback; the next one is due a period later
IntervalTick ==
    /\ pc = "run"
    /\ tleUpdateTimer > 0
    /\ now >= tleUpdateTimer
    /\ \E r \in {IntervalBody(g, now, env.mainLib)} :
          /\ g' = r.m
          /\ toWorker' = IF r.posts THEN Append(toWorker, UpdateMsg) ELSE toWorker
          /\ ev' = Event("interval", r.path, r.arr, r.ran, r.threw)
          /\ hist' = [hist EXCEPT !.issued = Issues(r)]
    /\ tleUpdateTimer' = now + TLE_UPDATE_MS
    /\ UNCHANGED <<now, advances, env, pc, fetchState, lastFrame, w, toMain, workersCreated,
                   response, cam>>

\* a requestAnimationFrame callback: at most one per clock value
Frame ==
    /\ pc = "run"
    /\ now > lastFrame
    /\ \E r \in {FrameBody(g, now, env.mainLib)} :
          /\ g' = r.m
          /\ toWorker' = IF r.posts THEN Append(toWorker, UpdateMsg) ELSE toWorker
          /\ ev' = Event("frame", r.path, r.arr, r.ran, r.threw)
          /\ hist' = [hist EXCEPT !.issued = hist.issued + Issues(r)]
    /\ cam' = FollowStep(cam, now)
    /\ lastFrame' = now
    /\ UNCHANGED <<now, advances, env, pc, fetchState, tleUpdateTimer, w, toMain,
                   workersCreated, response>>

\* the worker handles its next message
WorkerStep ==
    /\ w.state = "running"
    /\ toWorker # << >>
    /\ LET msg == Head(toWorker)
       IN IF msg.type = "setTLE"
          THEN /\ w' = [w EXCEPT !.tleData = HeldAfterSetTLE(msg)]
               /\ toMain' = Append(toMain, ReadyReply(HeldAfterSetTLE(msg), w.satlibLoaded))
               /\ ev' = Event("setTLE", "none", NULL, FALSE, FALSE)
          ELSE \E reply \in {PositionsReply(w.tleData, w.satlibLoaded, now)} :
               /\ w' = w
               /\ toMain' = Append(toMain, reply)
               /\ ev' = Event("update", "none", Some(reply.positions), w.satlibLoaded, FALSE)
    /\ toWorker' = Tail(toWorker)
    /\ UNCHANGED <<now, advances, env, pc, fetchState, g, tleUpdateTimer, lastFrame,
                   workersCreated, response, cam, hist>>

\* the buffer of the first 'positions' message in a queue (NULL: none)
FirstPositions(q) ==
    IF \E k \in 1..Len(q) : q[k].type = "positions"
    THEN Some(q[CHOOSE k \in 1..Len(q) :
                  /\ q[k].type = "positions"
                  /\ \A h \in 1..(k - 1) : q[h].type # "positions"].positions)
    ELSE NULL

\* mutant of AfterTerminate: replies already posted are still delivered
AfterTerminateDelivers(q) == Tail(q)

\* sgp4Worker.terminate(): q is the queue of replies with the 'ready' being
\* handled at its head; replies not yet delivered are discarded
AfterTerminate(q) == << >>

\* sgp4Worker.onmessage on the main thread; terminate() discards what is
\* queued in either direction.  A 'ready' step records in ev.arr the first
\* buffer that was in flight behind it
MainOnMessage ==
    /\ toMain # << >>
    /\ LET msg == Head(toMain)
       IN IF msg.type = "positions"
          THEN \E r \in {OnPositions(g, msg.positions, now)} :
                  /\ g' = r.m
                  /\ ev' = Event("positions", "worker", Some(msg.positions), TRUE, r.threw)
                  /\ hist' = Arrived(hist, msg.positions, g.satInterpStart, now)
                  /\ toMain' = Tail(toMain)
                  /\ UNCHANGED <<w, toWorker>>
          ELSE /\ g' = OnReady(g, msg.satlib)
               /\ ev' = Event("ready", "none", FirstPositions(Tail(toMain)), FALSE, FALSE)
               /\ hist' = [hist EXCEPT !.ready = IF msg.satlib THEN "lib" ELSE "nolib"]
               /\ IF msg.satlib
                  THEN /\ toMain' = Tail(toMain)
                       /\ UNCHANGED <<w, toWorker>>
                  ELSE /\ w' = [w EXCEPT !.state = "terminated"]
                       /\ toMain' = AfterTerminate(toMain)
                       /\ toWorker' = << >>
    /\ UNCHANGED <<now, advances, env, pc, fetchState, tleUpdateTimer, lastFrame,
                   workersCreated, response, cam>>

Next ==
    \/ InitApp
    \/ Advance
    \/ FetchFail
    \/ FetchSuccess
    \/ IntervalTick
    \/ Frame
    \/ WorkerStep
    \/ MainOnMessage

Spec == Init /\ [][Next]_vars

\* ----------------------------------------------------------- the claims
Allocated == ~IsNull(prevSatBuffer) /\ ~IsNull(nextSatBuffer)
WasAllocated == ~IsNull(ev.prePrev) /\ ~IsNull(ev.preNext)

\* the last step handed a buffer to the install code: a 'positions' message
\* was handled, or updateTLEPositionsFallback computed its batch
InstallStep ==
    \/ ev.op = "positions" /\ tlePositionsAttr # "null"
    \/ ev.op \in {"init", "interval", "frame"} /\ ev.path = "fallback" /\ ev.ran

\* the store is in Synthetic state
Synthetic == tleData = Placeholders

\* C1: a buffer of matching length installed on an allocated store leaves
\* prev equal to the old next and next equal to the buffer, the blend at 0
\* and the clock started at the current time
C1_InstallSlides ==
    (InstallStep /\ WasAllocated /\ Len(Val(ev.arr)) = Len(Val(ev.preNext)))
        => /\ prevSatBuffer = ev.preNext
           /\ nextSatBuffer = ev.arr
           /\ u_interp = 0
           /\ satInterpStart = now

\* a second reply was installed: prev and next differed before it, and the
\* reply differs from both
C1_Witness ==
    /\ ev.op = "positions"
    /\ WasAllocated
    /\ Len(Val(ev.arr)) = Len(Val(ev.preNext))
    /\ ev.preNext # ev.prePrev
    /\ ev.arr # ev.preNext
    /\ ev.arr # ev.prePrev

C3_BufferLengths ==
    Allocated => /\ Len(Val(prevSatBuffer)) = 3 * Len(tleData)
                 /\ Len(Val(nextSatBuffer)) = 3 * Len(tleData)

\* C4: across a frame in which the clock start is unchanged the blend does
\* not decrease, lies in [0, 1], and is 1 from satInterpStart + satInterpDuration on
C4_BlendMonotone ==
    [][(ev'.op = "frame" /\ g.satInterpStart > 0 /\ g'.satInterpStart = g.satInterpStart)
          => /\ g'.u_interp >= g.u_interp
             /\ g'.u_interp >= 0
             /\ g'.u_interp <= satInterpDuration
             /\ (now' >= g'.satInterpStart + satInterpDuration
                    => g'.u_interp = satInterpDuration)]_vars

\* a frame rendered after the blend duration has passed
C4_Witness ==
    /\ ev.op = "frame"
    /\ satInterpStart > 0
    /\ now > satInterpStart + satInterpDuration
    /\ u_interp = satInterpDuration

\* the position the vertex shader gives to coordinate k
RenderedPosition(k) == Mix(Val(prevSatBuffer)[k], Val(nextSatBuffer)[k], u_interp)

\* C5: at blend 0 the rendered position is prev, at blend 1 it is next
C5_MixEndpoints ==
    (Allocated /\ tlePositionsAttr = "a_posNext")
        => \A k \in 1..Len(Val(nextSatBuffer)) :
              /\ (u_interp = 0 => RenderedPosition(k) = Val(prevSatBuffer)[k])
              /\ (u_interp = satInterpDuration => RenderedPosition(k) = Val(nextSatBuffer)[k])

\* a finished blend between two different snapshots
C5_Witness ==
    /\ Allocated
    /\ tlePositionsAttr = "a_posNext"
    /\ u_interp = satInterpDuration
    /\ prevSatBuffer # nextSatBuffer

\* C6: after a 'ready' with satlib = false the worker is terminated and the
\* handle cleared; every later update tick runs the fallback, nothing is
\* posted to the worker, no worker is created and the fetch is not restarted
C6_FallbackAfterLibraryFailure ==
    /\ (ev.op = "ready" /\ ~w.satlibLoaded) => w.state = "terminated"
    /\ w.state = "terminated"
         => /\ ~sgp4Worker
            /\ toWorker = << >>
            /\ workersCreated = 1
            /\ fetchState = "resolved"
            /\ (ev.op = "interval" => ev.path = "fallback")
            /\ (ev.op = "frame" => ev.path \in {"fallback", "none"})

\* an interval tick after the termination computed the batch on the main thread
C6_Witness ==
    /\ w.state = "terminated"
    /\ ev.op = "interval"
    /\ ev.path = "fallback"
    /\ ev.ran

\* C7: after a failed fetch the store is in Synthetic state and the synthetic
\* population has SYNTHETIC_SAT_COUNT entries with altitude in [1.05, 1.55)
C7_SyntheticAfterFailure ==
    fetchState = "rejected"
        => /\ Synthetic
           /\ Len(syntheticParams) = SYNTHETIC_SAT_COUNT
           /\ \A i \in 1..Len(syntheticParams) :
                 /\ syntheticParams[i].altitude >= 1050
                 /\ syntheticParams[i].altitude < 1550

\* the fetch failed and some entry drew an altitude above the minimum
C7_Witness ==
    /\ fetchState = "rejected"
    /\ Synthetic
    /\ \E i \in 1..Len(syntheticParams) : syntheticParams[i].altitude > 1050

\* entry i of a flat buffer
Triple(buf, i) == <<buf[3 * i - 2], buf[3 * i - 1], buf[3 * i]>>

\* C8 (as claimed): with the library present, a batch over a collection with
\* absent lines completes without raising and holds (0,0,0) for every such
\* entry, on the worker and on the main thread
C8_AbsentLinesZero ==
    /\ (ev.op = "update" /\ ev.ran)
         => \A i \in 1..Len(w.tleData) :
               LinesAbsent(w.tleData[i]) => Triple(Val(ev.arr), i) = <<0, 0, 0>>
    /\ (ev.op \in {"init", "interval", "frame"} /\ ev.path = "fallback" /\ env.mainLib
          /\ \E i \in 1..Len(tleData) : LinesAbsent(tleData[i]))
         => /\ ~ev.threw
            /\ ev.ran
            /\ \A i \in 1..Len(tleData) :
                  LinesAbsent(tleData[i]) => Triple(Val(ev.arr), i) = <<0, 0, 0>>

\* the buffer of a collection of valid element sets at a timestamp
AllValid(tle) == \A i \in 1..Len(tle) : LibKind(tle[i].tle1, tle[i].tle2) = "ok"
PositionsAt(tle, t) == LET one(i) == Propagated(tle[i], t) IN Flat(Len(tle), one)

\* C9: for a collection of valid element sets the buffer an update computes
\* is determined by the collection and the timestamp alone, on the worker
\* and on the main thread, whatever prev and next held
C9_UpdateDeterministic ==
    /\ (ev.op = "update" /\ ev.ran /\ AllValid(w.tleData))
         => Val(ev.arr) = PositionsAt(w.tleData, now)
    /\ (ev.op \in {"init", "interval", "frame"} /\ ev.path = "fallback" /\ ev.ran
          /\ AllValid(tleData))
         => Val(ev.arr) = PositionsAt(tleData, now)

\* a main-thread update of a valid collection after earlier updates had
\* changed prev and next
C9_Witness ==
    /\ ev.op \in {"interval", "frame"}
    /\ ev.path = "fallback"
    /\ ev.ran
    /\ Len(tleData) > 0
    /\ AllValid(tleData)
    /\ WasAllocated
    /\ ev.preNext # ev.prePrev
    /\ ev.preNext # Some(Ring(Len(tleData), 1))

\* C10 (as claimed): when no worker can be instantiated, after a successful
\* fetch the main-thread path is in use: the handle is null and update ticks
\* run the fallback
C10_FallbackWithoutWorker ==
    (env.worker # "ok" /\ fetchState = "resolved")
        => /\ ~sgp4Worker
           /\ (ev.op = "interval" => ev.path = "fallback")

\* ----------------------------------------- the install code on any buffer
\* a 'positions' message carrying the batch of a collection of n entries
\* reaches the handler registered by setupSgp4Worker
ForeignPositions ==
    /\ sgp4Worker
    /\ w.state = "running"
    /\ toMain = << >>
    /\ \E n \in 0..(MaxSats + 1) :
         toMain' = <<PositionsReply([i \in 1..n |-> [name |-> "SAT", tle1 |-> "1", tle2 |-> "2 A"]],
                                    TRUE, now)>>
    /\ ev' = Event("foreign", "none", NULL, FALSE, FALSE)
    /\ UNCHANGED <<now, advances, env, pc, fetchState, g, tleUpdateTimer, lastFrame, w,
                   toWorker, workersCreated, response, cam, hist>>

InitInstall == Init /\ env = [worker |-> "ok", workerLib |-> TRUE, mainLib |-> TRUE]

\* the store is allocated by a successful fetch and then receives buffers
\* of any length; the clock stands still
NextInstall ==
    \/ InitApp
    \/ FetchSuccess
    \/ WorkerStep
    \/ MainOnMessage
    \/ ForeignPositions

SpecInstall == InitInstall /\ [][NextInstall]_vars

\* ------------------------------------------------ worker and fallback
\* the last step computed a batch on the main thread
FallbackRan == ev.op \in {"init", "interval", "frame"} /\ ev.path = "fallback" /\ ev.ran

\* C11 (as claimed): the buffer updateTLEPositionsFallback computes equals,
\* element for element, the buffer the worker's update handler computes for
\* the same collection and timestamp
C11_FallbackEqualsWorker ==
    FallbackRan => Val(ev.arr) = WorkerPositions(tleData, TRUE, now)

\* ------------------------------------------------------ the fetch outcome
\* the non-blank lines of a text, trimmed
NonBlank(text) ==
    LET trimmed == [k \in 1..Len(text) |-> Trim(text[k])]
        IsLine(l) == l # ""
    IN SelectSeq(trimmed, IsLine)

\* a text that is a non-empty sequence of name / line 1 / line 2 triplets
WellFormedLines(lines) ==
    /\ Len(lines) > 0
    /\ Len(lines) % 3 = 0
    /\ \A j \in 1..(Len(lines) \div 3) : lines[3 * j - 1] = "1" /\ lines[3 * j] \in TleLines

WellFormed(text) == \E lines \in {NonBlank(text)} : WellFormedLines(lines)

\* C12 (as claimed): a fetch that ends in a network error, an empty response
\* or a malformed response leaves the store in Synthetic state
C12_FailedFetchIsSynthetic ==
    /\ fetchState = "rejected" => Synthetic
    /\ (fetchState \in {"resolved", "threw"} /\ ~WellFormed(Val(response))) => Synthetic

\* ------------------------------------------------- failures inside a batch
\* the library fails on entry e: no position, or an exception
EntryFails(e) == ~LinesAbsent(e) /\ LibKind(e.tle1, e.tle2) # "ok"

\* buffer buf is a complete batch over collection tle at time t: 3 x N values,
\* the propagated position for every entry the library handles, (0,0,0) for
\* every entry it fails on
BatchIsolatesFailures(buf, tle, t) ==
    /\ Len(buf) = 3 * Len(tle)
    /\ \A i \in 1..Len(tle) :
          /\ LibKind(tle[i].tle1, tle[i].tle2) = "ok" => Triple(buf, i) = Propagated(tle[i], t)
          /\ EntryFails(tle[i]) => Triple(buf, i) = <<0, 0, 0>>

\* C13 (as claimed): an update over a collection with failing entries still
\* produces 3 x N values, the propagated position of every other entry and
\* (0,0,0) for each failing entry, on the worker and on the main thread
C13_EntryFailureZero ==
    /\ (ev.op = "update" /\ ev.ran) => BatchIsolatesFailures(Val(ev.arr), w.tleData, now)
    /\ FallbackRan => BatchIsolatesFailures(Val(ev.arr), tleData, now)

\* ------------------------------------------------ the interpolation clock
\* the seed fetchTLES gives prev and next at allocation, by the length of next
SeedBuffer == Some(Ring(Len(Val(nextSatBuffer)) \div 3, 1))

\* C14 (as claimed): a step that changes the contents of next after its
\* allocation (the first update of fetchTLES included) leaves the old next in
\* prev, the blend at 0 and the clock started at the current time; and a step
\* that changes the clock start is an install on an allocated store
C14_ClockRestartsOnInstall ==
    [][/\ (~IsNull(nextSatBuffer) /\ nextSatBuffer' # nextSatBuffer)
            => /\ prevSatBuffer' = nextSatBuffer
               /\ u_interp' = 0
               /\ satInterpStart' = now'
       /\ (IsNull(nextSatBuffer) /\ ~IsNull(nextSatBuffer') /\ nextSatBuffer' # SeedBuffer')
            => /\ prevSatBuffer' = SeedBuffer'
               /\ u_interp' = 0
               /\ satInterpStart' = now'
       /\ satInterpStart' # satInterpStart => (InstallStep /\ WasAllocated)'
      ]_vars

\* ------------------------------------------- the worker under any messages
\* messages in either queue when a further message is posted to the worker
MaxQueue == 2

\* collections a 'setTLE' message may carry
PostedCollections ==
    {<< >>,
     <<[name |-> "SAT", tle1 |-> "1", tle2 |-> "2 A"]>>,
     <<[name |-> "SAT", tle1 |-> "1", tle2 |-> "2 B"],
       [name |-> "BAD", tle1 |-> "1", tle2 |-> "2 throw"]>>}

\* a message reaches self.onmessage: 'setTLE' with a collection or without
\* one, or 'update'
PostToWorker ==
    /\ w.state = "running"
    /\ Len(toWorker) + Len(toMain) < MaxQueue
    /\ \E msg \in {UpdateMsg, [type |-> "setTLE", tle |-> NULL]}
                    \cup {SetTLEMsg(c) : c \in PostedCollections} :
          toWorker' = Append(toWorker, msg)
    /\ ev' = Event("post", "none", NULL, FALSE, FALSE)
    /\ UNCHANGED <<now, advances, env, pc, fetchState, g, tleUpdateTimer, lastFrame, w,
                   toMain, workersCreated, response, cam, hist>>

InitWorker == Init /\ env.worker = "ok"

\* the worker is created by a successful fetch and then handles any
\* sequence of messages; the clock stands still
NextWorker ==
    \/ InitApp
    \/ FetchSuccess
    \/ PostToWorker
    \/ WorkerStep
    \/ MainOnMessage

SpecWorker == InitWorker /\ [][NextWorker]_vars

\* C15: handling a 'setTLE' message leaves the worker holding the supplied
\* collection (the empty one when none is supplied) and adds exactly one
\* reply, a 'ready' whose count is the new collection's length and whose
\* satlib flag tells whether the library loaded when the worker started
C15_SetTLEReplies ==
    [][ev'.op = "setTLE"
          => /\ w'.tleData = (IF IsNull(Head(toWorker).tle) THEN << >>
                              ELSE Val(Head(toWorker).tle))
             /\ Len(toMain') = Len(toMain) + 1
             /\ SubSeq(toMain', 1, Len(toMain)) = toMain
             /\ toMain'[Len(toMain')].type = "ready"
             /\ toMain'[Len(toMain')].count = Len(w'.tleData)
             /\ toMain'[Len(toMain')].satlib = env.workerLib]_vars

\* a later 'setTLE' replaced the collection the main thread had sent
C15_Witness ==
    /\ ev.op = "setTLE"
    /\ w.tleData # tleData
    /\ Len(w.tleData) = 2
    /\ toMain # << >>
    /\ toMain[Len(toMain)].type = "ready"
    /\ toMain[Len(toMain)].count = 2

\* ------------------------------------------------------ parsing any text
\* longest text parsed
MaxLines == 7

\* the lines of a text: a name, a first line and a second line with trailing
\* white space, a blank line
ParseAlphabet == {"N", "1 ", "2 A ", " "}
ParseTexts == UNION {[1..n -> ParseAlphabet] : n \in 0..MaxLines}

InitParse ==
    /\ now = PageLoadMs
    /\ advances = 0
    /\ env = [worker |-> "undefined", workerLib |-> FALSE, mainLib |-> FALSE]
    /\ pc = "load"
    /\ fetchState = "pending"
    /\ g = [tleData |-> << >>,
            prevSatBuffer |-> NULL,
            nextSatBuffer |-> NULL,
            tlePositionsAttr |-> "null",
            positionArray |-> << >>,
            u_interp |-> 0,
            satInterpStart |-> 0,
            lastTleUpdate |-> 0,
            tleLatestBuffer |-> NULL,
            sgp4Worker |-> FALSE,
            syntheticParams |-> << >>]
    /\ tleUpdateTimer = 0
    /\ lastFrame = 0
    /\ w = [state |-> "none", satlibLoaded |-> FALSE, tleData |-> << >>]
    /\ toWorker = << >>
    /\ toMain = << >>
    /\ workersCreated = 0
    /\ response \in {Some(text) : text \in ParseTexts}
    /\ cam = NoCamera("script.js")
    /\ hist = NoHistory
    /\ ev = [op |-> "none", path |-> "none", arr |-> NULL, ran |-> FALSE, threw |-> FALSE,
             preNext |-> NULL, prePrev |-> NULL]

\* the parse of fetchTLES applied to the text
ParseResponse ==
    /\ ev.op = "none"
    /\ g' = [g EXCEPT !.tleData = ParseTLE(Val(response))]
    /\ ev' = Event("parse", "none", NULL, FALSE, FALSE)
    /\ UNCHANGED <<now, advances, env, pc, fetchState, tleUpdateTimer, lastFrame, w, toWorker,
                   toMain, workersCreated, response, cam, hist>>

SpecParse == InitParse /\ [][ParseResponse]_vars

\* the lines of a text that are not white space only
Inked(text) == LET HasInk(l) == l \notin {"", " "} IN SelectSeq(text, HasInk)

\* a line without its trailing white space
Stripped(l) == IF l = "1 " THEN "1" ELSE IF l = "2 A " THEN "2 A" ELSE l

\* C16: after the parse tleData has floor(L / 3) entries for the L non-blank
\* lines of the text, and entry i holds non-blank lines 3i, 3i+1, 3i+2
\* (counted from 0), trimmed, as name, line 1 and line 2
C16_ParseTriplets ==
    ev.op = "parse"
        => LET lines == Inked(Val(response))
           IN /\ Len(tleData) = Len(lines) \div 3
              /\ \A i \in 1..Len(tleData) :
                    /\ tleData[i].name = Stripped(lines[3 * i - 2])
                    /\ tleData[i].tle1 = Stripped(lines[3 * i - 1])
                    /\ tleData[i].tle2 = Stripped(lines[3 * i])

\* a text with blank lines, trailing white space and an incomplete last
\* triplet was parsed into entries
C16_Witness ==
    /\ ev.op = "parse"
    /\ Len(tleData) >= 1
    /\ Len(Inked(Val(response))) % 3 = 2
    /\ Len(Val(response)) > Len(Inked(Val(response)))
    /\ Val(response)[Len(Val(response))] = " "
    /\ tleData[1] = [name |-> "N", tle1 |-> "1", tle2 |-> "2 A"]

\* --------------------------------------------------- the camera under use
\* user inputs (pointer input, checkbox, buttons) in a behaviour
MaxInputs == 4

\* where OrbitControls may leave the camera and its target after pointer
\* input: an orbit and zoom about the origin, or a pan as well
MovedViews == {[position |-> <<2000, 1000, 0>>, target |-> Origin],
               [position |-> <<0, 500, 5000>>, target |-> <<0, 500, 0>>]}

\* a drag, pan or wheel handled by OrbitControls
CameraMove ==
    /\ pc = "run"
    /\ cam.inputs < MaxInputs
    /\ \E v \in MovedViews :
          cam' = [cam EXCEPT !.position = v.position, !.target = v.target, !.inputs = @ + 1]
    /\ ev' = Event("cameraMove", "none", NULL, FALSE, FALSE)
    /\ UNCHANGED <<now, advances, env, pc, fetchState, g, tleUpdateTimer, lastFrame, w,
                   toWorker, toMain, workersCreated, response, hist>>

\* the ISS checkbox: updateIssVisibility(checked)
SetIssVisible ==
    /\ pc = "run"
    /\ cam.inputs < MaxInputs
    /\ \E checked \in BOOLEAN : cam' = [cam EXCEPT !.issVisible = checked, !.inputs = @ + 1]
    /\ ev' = Event("issVisible", "none", NULL, FALSE, FALSE)
    /\ UNCHANGED <<now, advances, env, pc, fetchState, g, tleUpdateTimer, lastFrame, w,
                   toWorker, toMain, workersCreated, response, hist>>

\* the Follow ISS button
ToggleFollowISS ==
    /\ pc = "run"
    /\ cam.inputs < MaxInputs
    /\ cam' = [ToggleFollow(cam, now) EXCEPT !.inputs = @ + 1]
    /\ ev' = Event("toggleFollow", "none", NULL, FALSE, FALSE)
    /\ UNCHANGED <<now, advances, env, pc, fetchState, g, tleUpdateTimer, lastFrame, w,
                   toWorker, toMain, workersCreated, response, hist>>

\* the Reset button
ResetView ==
    /\ pc = "run"
    /\ cam.inputs < MaxInputs
    /\ cam' = [ResetViewOf(cam) EXCEPT !.inputs = @ + 1]
    /\ ev' = Event("resetView", "none", NULL, FALSE, FALSE)
    /\ UNCHANGED <<now, advances, env, pc, fetchState, g, tleUpdateTimer, lastFrame, w,
                   toWorker, toMain, workersCreated, response, hist>>

\* either script, with no worker and the fetch outstanding
InitCamera ==
    /\ InitStore
    /\ env = [worker |-> "undefined", workerLib |-> FALSE, mainLib |-> TRUE]
    /\ cam \in {NoCamera("script.js"), NoCamera("copy")}

NextCamera ==
    \/ InitApp
    \/ Advance
    \/ IntervalTick
    \/ Frame
    \/ CameraMove
    \/ SetIssVisible
    \/ ToggleFollowISS
    \/ ResetView

SpecCamera == InitCamera /\ [][NextCamera]_vars

\* C17 (as claimed): right after resetView the camera position, the controls
\* target and the field of view are the values they had at init
C17_ResetRestoresView ==
    ev.op = "resetView"
        => /\ cam.position = InitialPosition
           /\ cam.target = Origin
           /\ cam.fov = InitialFov

\* ------------------------------------------------- replies and readiness
\* C18: a 'positions' message is handled only after the worker's 'ready'
\* with library support was handled; after a 'ready' without library support
\* (the worker is then terminated) no 'positions' message is handled and
\* none is left to be delivered
C18_InstallOnlyAfterReady ==
    /\ ev.op = "positions" => acked = "lib"
    /\ acked = "nolib" => /\ w.state = "terminated"
                          /\ toMain = << >>

\* the worker reported the library missing while its all-zero reply to the
\* first 'update' was in flight, and was terminated
C18_Witness ==
    /\ ev.op = "ready"
    /\ acked = "nolib"
    /\ w.state = "terminated"
    /\ ~IsNull(ev.arr)
    /\ Len(Val(ev.arr)) > 0
    /\ Val(ev.arr) = Zeros(Len(Val(ev.arr)))
    /\ nextSatBuffer # ev.arr

\* ------------------------------------------------------- order of installs
\* C19: once k 'positions' messages have arrived, next holds the k-th and,
\* for k >= 2, prev holds the (k-1)-th, whatever the progress of the blend
\* was when the k-th arrived; the install happens in the step of the arrival
C19_InstalledInArrivalOrder ==
    /\ hist.arrived >= 1 => nextSatBuffer = hist.last
    /\ hist.arrived >= 2 => prevSatBuffer = hist.lastBefore
    /\ (ev.op = "positions" /\ hist.arrived >= 1) => (u_interp = 0 /\ satInterpStart = now)

\* a second or later reply, different from the one before it, arrived while
\* the blend of the one before it was below 1
C19_Witness ==
    /\ ev.op = "positions"
    /\ hist.arrived >= 2
    /\ hist.sinceInstall < satInterpDuration
    /\ hist.last # hist.lastBefore
    /\ nextSatBuffer = hist.last
    /\ prevSatBuffer = hist.lastBefore

\* ------------------------------------------------------ the update period
\* C20: between two consecutive setInterval callbacks the main thread
\* issues at most one update request (an 'update' posted to the worker or a
\* main-thread batch), the request of fetchTLES right after 'setTLE' not
\* counted
C20_OneUpdatePerPeriod == hist.issued <= 1


\* -------------------------------------------------------- a silent worker
\* a frame or interval step taken while the worker handle is non-null
WorkerPathStep == ev.op \in {"frame", "interval"} /\ sgp4Worker

\* C21: while the worker handle is non-null and no reply arrives, frames and
\* interval callbacks stay on the worker path and leave prev and next as
\* they were, and every frame taken satInterpDuration or more after the last
\* install shows the blend factor at 1.0, also when no reply ever arrived
C21_SilentWorkerSteadyState ==
    /\ WorkerPathStep => /\ ev.path # "fallback"
                         /\ nextSatBuffer = ev.preNext
                         /\ prevSatBuffer = ev.prePrev
    /\ (WorkerPathStep /\ ev.op = "frame" /\ Allocated
            /\ now >= satInterpStart + satInterpDuration)
          => u_interp = satInterpDuration


\* ------------------------------------------------- Synthetic is absorbing
\* C22: from a state where tleData holds the placeholders, no step (interval
\* callback, frame, worker message, passage of time) starts a fetch, creates
\* a worker or a worker handle, or replaces the placeholders
C22_SyntheticStays ==
    [][Synthetic => /\ g'.tleData = Placeholders
                    /\ fetchState' = fetchState
                    /\ response' = response
                    /\ workersCreated' = workersCreated
                    /\ g'.sgp4Worker = g.sgp4Worker
                    /\ toWorker' = toWorker]_vars

\* in Synthetic state an interval callback ran the main-thread update and a
\* later frame was rendered
C22_Witness ==
    /\ Synthetic
    /\ ev.op = "frame"
    /\ tleUpdateTimer > PageLoadMs + TLE_UPDATE_MS
    /\ now > tleUpdateTimer - TLE_UPDATE_MS
    /\ fetchState \in {"rejected", "threw"}


\* ------------------------------------------- the worker's library flag
\* the message the worker posted last
LastPosted == toMain[Len(toMain)]

\* C23: satlibLoaded of a started worker is what the importScripts block
\* found and never changes; without the library the reply to an 'update' is
\* the all-zero buffer of length 3 x N, computed without the library, and
\* every 'ready' reports satlib = false
C23_LibraryDecidedAtStart ==
    /\ w.state # "none" => w.satlibLoaded = env.workerLib
    /\ (ev.op = "update" /\ ~w.satlibLoaded)
          => /\ ~ev.ran
             /\ LastPosted.type = "positions"
             /\ LastPosted.positions = Zeros(3 * Len(w.tleData))
    /\ (w.state = "running" /\ ~w.satlibLoaded)
          => \A k \in 1..Len(toMain) : toMain[k].type = "ready" => ~toMain[k].satlib

\* a worker without the library answered an 'update' for a collection with
\* an entry the library would have propagated
C23_Witness ==
    /\ ev.op = "update"
    /\ ~w.satlibLoaded
    /\ \E i \in 1..Len(w.tleData) : LibKind(w.tleData[i].tle1, w.tleData[i].tle2) = "ok"
    /\ LastPosted.positions = Zeros(3 * Len(w.tleData))


\* --------------------------------------------- frames leave the buffers
\* C24: a frame leaves prev and next as they were unless its update check
\* ran an install, and then prev is the old next and next is the installed
\* buffer (or, when that copy raised, still the old next): no frame writes
\* blended values into either buffer
C24_FramesKeepBuffers ==
    ev.op \in {"init", "frame"}
        => IF ev.path = "fallback" /\ ev.ran /\ WasAllocated
           THEN /\ prevSatBuffer = ev.preNext
                /\ \/ nextSatBuffer = ev.arr
                   \/ ev.threw /\ nextSatBuffer = ev.preNext
           ELSE /\ prevSatBuffer = ev.prePrev
                /\ nextSatBuffer = ev.preNext

\* a frame rendered in the middle of a blend between two different buffers,
\* without an update
C24_Witness ==
    /\ ev.op = "frame"
    /\ ev.path = "none"
    /\ Allocated
    /\ prevSatBuffer # nextSatBuffer
    /\ u_interp > 0
    /\ u_interp < satInterpDuration


\* ------------------------------------------- the synthetic population
\* C25: a frame advances the phase of every synthetic entry by its speed and
\* keeps its altitude (within [1.05, 1.55)), speed and inclination;
\* animateSyntheticSatellites changes no other variable of the main thread
C25_SyntheticAdvance ==
    [][ev'.op = "frame"
         => /\ Len(g'.syntheticParams) = Len(g.syntheticParams)
            /\ \A i \in 1..Len(g.syntheticParams) :
                  /\ g'.syntheticParams[i].phase
                        = g.syntheticParams[i].phase + g.syntheticParams[i].speed
                  /\ g'.syntheticParams[i].altitude = g.syntheticParams[i].altitude
                  /\ g'.syntheticParams[i].speed = g.syntheticParams[i].speed
                  /\ g'.syntheticParams[i].inclination = g.syntheticParams[i].inclination
                  /\ g'.syntheticParams[i].altitude >= 1050
                  /\ g'.syntheticParams[i].altitude < 1550
            /\ \A f \in DOMAIN g \ {"syntheticParams"} : FrameAnimate(g)[f] = g[f]]_vars

\* a frame after the first was rendered for a population whose entries are
\* faster than the minimum speed
C25_Witness ==
    /\ ev.op = "frame"
    /\ lastFrame > PageLoadMs
    /\ Len(syntheticParams) = SYNTHETIC_SAT_COUNT
    /\ \E i \in 1..Len(syntheticParams) :
          /\ syntheticParams[i].speed > 2
          /\ syntheticParams[i].phase >= 2 * syntheticParams[i].speed
    /\ Allocated


\* ------------------------------------------------ while the fetch is out
\* C26: a step taken while the fetch is outstanding (a frame, an interval
\* callback, the passage of time) changes nothing of the main thread's store
\* but the synthetic population: no message is posted, prev, next, the
\* blend and its clock, tleData and the worker handle stay as they were,
\* and the update it attempts neither computes a batch nor raises
C26_PendingFetchIdle ==
    [][(fetchState = "pending" /\ fetchState' = "pending")
         => /\ g' = [g EXCEPT !.syntheticParams = g'.syntheticParams]
            /\ toWorker' = toWorker
            /\ toMain' = toMain
            /\ w' = w
            /\ workersCreated' = workersCreated
            /\ ~ev'.ran
            /\ ~ev'.threw]_vars

\* the fetch is still outstanding after an interval callback and a later
\* frame have run
C26_Witness ==
    /\ fetchState = "pending"
    /\ ev.op = "frame"
    /\ tleUpdateTimer > PageLoadMs + TLE_UPDATE_MS
    /\ now > tleUpdateTimer - TLE_UPDATE_MS
    /\ ~Allocated
    /\ tleData = << >>


\* ------------------------------------------- the placeholders' positions
\* C27: in Synthetic state the buffer the renderer reads (the 'position'
\* attribute of the catch block) keeps the ring written when the
\* placeholders were created, whatever updates have run since
C27_PlaceholdersKeepRing ==
    (Synthetic /\ tlePositionsAttr = "position")
        => positionArray = Ring(PlaceholderCount, 2)


\* ------------------------------------------------ one path per update
\* the step just taken ran a propagation on the main thread, or entered one
MainThreadPath == ev.op \in {"init", "interval", "frame", "fetchSuccess"}
                    /\ (ev.ran \/ ev.path \in {"fallback", "direct"})

\* C28: a step that posts to the worker has a non-null handle and runs no
\* main-thread propagation; a step that runs (or enters) a main-thread
\* propagation has a null handle and posts nothing
C28_OnePathPerUpdate ==
    [][/\ Len(toWorker') > Len(toWorker)
            => (g'.sgp4Worker /\ ~MainThreadPath')
       /\ MainThreadPath' => (~g'.sgp4Worker /\ ~g.sgp4Worker /\ toWorker' = toWorker)]_vars

\* the main-thread update ran on a timer after a worker had been created and
\* had been sent requests: both paths were used, one after the other
C28_Witness ==
    /\ ev.op \in {"interval", "frame"}
    /\ ev.path = "fallback"
    /\ ev.ran
    /\ workersCreated = 1
    /\ hist.ready = "nolib"
    /\ ~sgp4Worker
    /\ toWorker = << >>


\* ------------------------------------------------- the length of replies
\* C29: the worker handles an 'update' holding the main thread's current
\* collection, every reply posted or handled has length 3 x tleData.length
\* = prev.length = next.length, and the handler's copies do not raise
C29_ReplyLengthMatches ==
    /\ (ev.op = "update" /\ sgp4Worker) => w.tleData = tleData
    /\ \A k \in 1..Len(toMain) :
          (toMain[k].type = "positions" /\ sgp4Worker)
              => Len(toMain[k].positions) = 3 * Len(tleData)
    /\ ev.op = "positions"
          => /\ Len(Val(ev.arr)) = 3 * Len(tleData)
             /\ Allocated
             /\ Len(Val(nextSatBuffer)) = Len(Val(ev.arr))
             /\ Len(Val(prevSatBuffer)) = Len(Val(ev.arr))
             /\ ~ev.threw

\* a reply for a collection of MaxSats entries was handled after an earlier
\* one
C29_Witness ==
    /\ ev.op = "positions"
    /\ Len(tleData) = MaxSats
    /\ Len(Val(ev.arr)) = 3 * MaxSats
    /\ hist.arrived >= 2
    /\ nextSatBuffer = ev.arr


\* ------------------------------------- a throwing entry in the fallback
\* the library raises for the lines of entry e
Throws(e) == ~LinesAbsent(e) /\ LibKind(e.tle1, e.tle2) = "throw"

\* C30: after a main-thread fallback install on allocated buffers, an entry
\* whose propagation threw has prev[i] = next[i] = the value next held for it
\* before the call, and an entry that was propagated has its new position in
\* next and the old next in prev
C30_ThrowingEntryStays ==
    (FallbackRan /\ WasAllocated /\ ~ev.threw)
        => \A i \in 1..Len(tleData) :
              /\ Throws(tleData[i])
                    => /\ Triple(Val(prevSatBuffer), i) = Triple(Val(ev.preNext), i)
                       /\ Triple(Val(nextSatBuffer), i) = Triple(Val(ev.preNext), i)
              /\ LibKind(tleData[i].tle1, tleData[i].tle2) = "ok"
                    => /\ Triple(Val(prevSatBuffer), i) = Triple(Val(ev.preNext), i)
                       /\ Triple(Val(nextSatBuffer), i) = Propagated(tleData[i], now)

\* a fallback install over a collection with a throwing entry that sat away
\* from the origin and a propagated entry that moved
C30_Witness ==
    /\ FallbackRan
    /\ WasAllocated
    /\ ~ev.threw
    /\ \E i, j \in 1..Len(tleData) :
          /\ Throws(tleData[i])
          /\ Triple(Val(ev.preNext), i) # <<0, 0, 0>>
          /\ Triple(Val(nextSatBuffer), i) = Triple(Val(ev.preNext), i)
          /\ LibKind(tleData[j].tle1, tleData[j].tle2) = "ok"
          /\ Triple(Val(nextSatBuffer), j) # Triple(Val(prevSatBuffer), j)

====
